---- MODULE Spec2Model ----
(***************************************************************************)
(* use-key-match: matching a keyboard event against an accelerator pattern *)
(* ("CmdOrCtrl+Shift+S", "EnterOrSpace").                                   *)
(*                                                                         *)
(* JavaScript strings are TLA+ strings, handled character by character     *)
(* with Len, SubSeq and \o.  A value that may be undefined is a sequence   *)
(* of length 0 (undefined) or 1 (the value).  A thrown exception is a     *)
(* record field: threw = "" means normal completion, otherwise threw is    *)
(* the exception's kind and message its text.                              *)
(***************************************************************************)
EXTENDS Naturals, Sequences, FiniteSets, TLC

VARIABLES
    navigator,    \* the host's global navigator object (or its absence)
    event,        \* the KeyboardEvent handed to keyMatch
    given,        \* the pattern as its author composed it: alternatives and separator
    matchString,  \* the pattern string handed to keyMatch
    parsed,       \* keyMatch's destructured parseMatchString(matchString)
    result,       \* keyMatch's completion: pending, returned value or throw
    pc,           \* "call" before keyMatch runs, "done" after; "hook" under useKeyMatch
    passesEvent,  \* useKeyMatch calls callbacks[matchString]?.(event), or ?.() as its copy does
    mounted,      \* the component that calls useKeyMatch is mounted
    callbacks,    \* the callbacks object of the last render, <<>> when there is none
    registration, \* how many times the effect has run; names the current registration
    listeners,    \* window's keydown listeners, in the order they were added
    invoked,      \* the callbacks the last step invoked, in order
    handled       \* how the filter of each listener's handleKeyDown completed in the last step

hookVars == <<passesEvent, mounted, callbacks, registration, listeners, invoked, handled>>

vars == <<navigator, event, given, matchString, parsed, result, pc,
          passesEvent, mounted, callbacks, registration, listeners, invoked, handled>>

-----------------------------------------------------------------------------
(* JavaScript string built-ins, as the engine computes them (ASCII).       *)

UpperChars == "ABCDEFGHIJKLMNOPQRSTUVWXYZ"
LowerChars == "abcdefghijklmnopqrstuvwxyz"

charAt(s, i) == SubSeq(s, i, i)

LowerMap ==
    [c \in {charAt(UpperChars, i) : i \in 1..Len(UpperChars)} |->
        charAt(LowerChars, CHOOSE i \in 1..Len(UpperChars) : charAt(UpperChars, i) = c)]

UpperMap ==
    [c \in {charAt(LowerChars, i) : i \in 1..Len(LowerChars)} |->
        charAt(UpperChars, CHOOSE i \in 1..Len(LowerChars) : charAt(LowerChars, i) = c)]

toLowerChar(c) == IF c \in DOMAIN LowerMap THEN LowerMap[c] ELSE c
toUpperChar(c) == IF c \in DOMAIN UpperMap THEN UpperMap[c] ELSE c

RECURSIVE toLowerCase(_)
toLowerCase(s) ==
    IF s = "" THEN ""
    ELSE toLowerChar(charAt(s, 1)) \o toLowerCase(SubSeq(s, 2, Len(s)))

RECURSIVE toUpperCase(_)
toUpperCase(s) ==
    IF s = "" THEN ""
    ELSE toUpperChar(charAt(s, 1)) \o toUpperCase(SubSeq(s, 2, Len(s)))

\* s has needle at position i (1-based), compared exactly
hasAt(s, i, needle) ==
    /\ i + Len(needle) - 1 <= Len(s)
    /\ SubSeq(s, i, i + Len(needle) - 1) = needle

\* the same under the regular expression flag i; needle is given in lower case
hasAtIgnoreCase(s, i, needle) ==
    /\ i + Len(needle) - 1 <= Len(s)
    /\ toLowerChar(charAt(s, i)) = charAt(needle, 1)
    /\ toLowerCase(SubSeq(s, i, i + Len(needle) - 1)) = needle

\* String.prototype.indexOf(needle) >= 0
includes(s, needle) == \E i \in 1..Len(s) : hasAt(s, i, needle)

WhiteSpace == {" ", "\t"}

RECURSIVE trimStart(_)
trimStart(s) ==
    IF s # "" /\ charAt(s, 1) \in WhiteSpace THEN trimStart(SubSeq(s, 2, Len(s))) ELSE s

RECURSIVE trimEnd(_)
trimEnd(s) ==
    IF s # "" /\ charAt(s, Len(s)) \in WhiteSpace THEN trimEnd(SubSeq(s, 1, Len(s) - 1)) ELSE s

trim(s) == trimEnd(trimStart(s))

\* s.replace(/needle/g, replacement), and with ignoreCase = TRUE s.replace(/needle/gi, ...)
\* (needle in lower case then): leftmost matches, not overlapping, left to right
RECURSIVE replaceAll(_, _, _, _)
replaceAll(s, needle, replacement, ignoreCase) ==
    IF s = "" THEN ""
    ELSE IF (IF ignoreCase THEN hasAtIgnoreCase(s, 1, needle) ELSE hasAt(s, 1, needle))
    THEN replacement \o replaceAll(SubSeq(s, Len(needle) + 1, Len(s)), needle, replacement, ignoreCase)
    ELSE charAt(s, 1) \o replaceAll(SubSeq(s, 2, Len(s)), needle, replacement, ignoreCase)

\* s.split(sep) for a literal separator, and with ignoreCase = TRUE s.split(/sep/i):
\* cur is the piece being collected
RECURSIVE splitFrom(_, _, _, _)
splitFrom(s, sep, ignoreCase, cur) ==
    IF s = "" THEN <<cur>>
    ELSE IF (IF ignoreCase THEN hasAtIgnoreCase(s, 1, sep) ELSE hasAt(s, 1, sep))
    THEN <<cur>> \o splitFrom(SubSeq(s, Len(sep) + 1, Len(s)), sep, ignoreCase, "")
    ELSE splitFrom(SubSeq(s, 2, Len(s)), sep, ignoreCase, cur \o charAt(s, 1))

split(s, sep, ignoreCase) == splitFrom(s, sep, ignoreCase, "")

-----------------------------------------------------------------------------
(* Completions                                                             *)

NoThrow == ""
TypeError == "TypeError"
Error == "Error"

-----------------------------------------------------------------------------
(* getIsMacOS: the platform query                                          *)

getIsMacOS ==
    IF ~navigator.exists
    THEN [threw |-> NoThrow, message |-> "", value |-> FALSE]
    ELSE IF navigator.hasUserAgentData /\ navigator.userAgentData = <<>>
    THEN [threw |-> TypeError, message |-> "navigator.userAgentData is undefined", value |-> FALSE]
    ELSE LET platform ==
                IF navigator.hasUserAgentData
                THEN IF navigator.userAgentData[1].platform = <<>>
                     THEN <<"">>
                     ELSE navigator.userAgentData[1].platform
                ELSE navigator.platform
         IN  IF platform = <<>>
             THEN [threw |-> TypeError, message |-> "platform is undefined", value |-> FALSE]
             ELSE [threw |-> NoThrow, message |-> "",
                   value |-> includes(toUpperCase(platform[1]), "MAC")]

-----------------------------------------------------------------------------
(* parseModifiers                                                          *)

NoModifiers ==
    [threw |-> NoThrow, message |-> "",
     ctrl |-> FALSE, alt |-> FALSE, shift |-> FALSE, meta |-> FALSE]

\* parseModifier with the platform test of 'option' left out
parseModifierOptionEverywhere(acc, modifier) ==
    CASE modifier \in {"cmd", "command"} -> [acc EXCEPT !.meta = TRUE]
      [] modifier \in {"ctrl", "control"} -> [acc EXCEPT !.ctrl = TRUE]
      [] modifier \in {"cmdorctrl", "commandorcontrol"} ->
            LET mac == getIsMacOS
            IN  IF mac.threw # NoThrow
                THEN [NoModifiers EXCEPT !.threw = mac.threw, !.message = mac.message]
                ELSE IF mac.value THEN [acc EXCEPT !.meta = TRUE]
                     ELSE [acc EXCEPT !.ctrl = TRUE]
      [] modifier \in {"alt", "option"} -> [acc EXCEPT !.alt = TRUE]
      [] modifier = "shift" -> [acc EXCEPT !.shift = TRUE]
      [] modifier \in {"meta", "super"} -> [acc EXCEPT !.meta = TRUE]
      [] OTHER -> acc

\* one iteration of the for loop: the switch on one modifier
parseModifier(acc, modifier) ==
    CASE modifier \in {"cmd", "command"} -> [acc EXCEPT !.meta = TRUE]
      [] modifier \in {"ctrl", "control"} -> [acc EXCEPT !.ctrl = TRUE]
      [] modifier \in {"cmdorctrl", "commandorcontrol"} ->
            LET mac == getIsMacOS
            IN  IF mac.threw # NoThrow
                THEN [NoModifiers EXCEPT !.threw = mac.threw, !.message = mac.message]
                ELSE IF mac.value THEN [acc EXCEPT !.meta = TRUE]
                     ELSE [acc EXCEPT !.ctrl = TRUE]
      [] modifier = "alt" -> [acc EXCEPT !.alt = TRUE]
      [] modifier = "option" ->
            LET mac == getIsMacOS
            IN  IF mac.threw # NoThrow
                THEN [NoModifiers EXCEPT !.threw = mac.threw, !.message = mac.message]
                ELSE IF mac.value THEN [acc EXCEPT !.alt = TRUE]
                     ELSE acc
      [] modifier = "shift" -> [acc EXCEPT !.shift = TRUE]
      [] modifier \in {"meta", "super"} -> [acc EXCEPT !.meta = TRUE]
      [] OTHER -> acc

RECURSIVE parseModifiersFrom(_, _, _)
parseModifiersFrom(modifierParts, i, acc) ==
    IF acc.threw # NoThrow \/ i > Len(modifierParts) THEN acc
    ELSE parseModifiersFrom(modifierParts, i + 1, parseModifier(acc, modifierParts[i]))

\* parseModifiers with the flags assigned from the last token instead of accumulated
parseModifiersLastOnly(modifierParts) ==
    IF modifierParts = <<>> THEN NoModifiers
    ELSE parseModifier(NoModifiers, modifierParts[Len(modifierParts)])

parseModifiers(modifierParts) == parseModifiersFrom(modifierParts, 1, NoModifiers)

-----------------------------------------------------------------------------
(* parseSingleKeyMatch, parseMultipleKeyMatch, parseMatchString            *)

\* parts.slice(0, -1).map(part => part.toLowerCase())
lowerModifierParts(parts) == [i \in 1..(Len(parts) - 1) |-> toLowerCase(parts[i])]

Thrown(kind, text) ==
    [threw |-> kind, message |-> text,
     ctrl |-> FALSE, alt |-> FALSE, shift |-> FALSE, meta |-> FALSE, keys |-> <<>>]

WithKeys(modifiers, keys) ==
    [threw |-> modifiers.threw, message |-> modifiers.message,
     ctrl |-> modifiers.ctrl, alt |-> modifiers.alt,
     shift |-> modifiers.shift, meta |-> modifiers.meta,
     keys |-> IF modifiers.threw = NoThrow THEN keys ELSE <<>>]

parseSingleKeyMatch(str) ==
    LET parts == split(str, "+", FALSE)
        key == toLowerCase(parts[Len(parts)])
    IN  IF key = ""
        THEN Thrown(Error, "Invalid accelerator: " \o str)
        ELSE WithKeys(parseModifiers(lowerModifierParts(parts)), <<key>>)

\* the for loop over keyAlternatives from index i on: acc holds keys and modifiers,
\* first is firstCombination
RECURSIVE parseMultipleFrom(_, _, _, _)
parseMultipleFrom(keyAlternatives, i, acc, first) ==
    IF i > Len(keyAlternatives) THEN acc
    ELSE LET alternative == keyAlternatives[i]
             parts == split(trim(alternative), "+", FALSE)
             key == toLowerCase(parts[Len(parts)])
         IN  IF key = ""
             THEN Thrown(Error, "Invalid accelerator: " \o trim(alternative))
             ELSE IF first
             THEN LET modifiers == parseModifiers(lowerModifierParts(parts))
                  IN  IF modifiers.threw # NoThrow
                      THEN WithKeys(modifiers, <<>>)
                      ELSE parseMultipleFrom(keyAlternatives, i + 1,
                                             WithKeys(modifiers, Append(acc.keys, key)), FALSE)
             ELSE parseMultipleFrom(keyAlternatives, i + 1,
                                    [acc EXCEPT !.keys = Append(acc.keys, key)], FALSE)

\* parseMultipleKeyMatch with every alternative's modifiers parsed and merged
RECURSIVE parseMultipleMergingFrom(_, _, _)
parseMultipleMergingFrom(keyAlternatives, i, acc) ==
    IF i > Len(keyAlternatives) THEN acc
    ELSE LET parts == split(trim(keyAlternatives[i]), "+", FALSE)
             key == toLowerCase(parts[Len(parts)])
             modifiers == parseModifiers(lowerModifierParts(parts))
         IN  IF key = ""
             THEN Thrown(Error, "Invalid accelerator: " \o trim(keyAlternatives[i]))
             ELSE IF modifiers.threw # NoThrow
             THEN WithKeys(modifiers, <<>>)
             ELSE parseMultipleMergingFrom(keyAlternatives, i + 1,
                    [acc EXCEPT !.keys = Append(acc.keys, key),
                                !.ctrl = acc.ctrl \/ modifiers.ctrl,
                                !.alt = acc.alt \/ modifiers.alt,
                                !.shift = acc.shift \/ modifiers.shift,
                                !.meta = acc.meta \/ modifiers.meta])

parseMultipleKeyMatchMerging(keyAlternatives) ==
    parseMultipleMergingFrom(keyAlternatives, 1, WithKeys(NoModifiers, <<>>))

parseMultipleKeyMatch(keyAlternatives) ==
    parseMultipleFrom(keyAlternatives, 1, WithKeys(NoModifiers, <<>>), TRUE)

\* parseMatchString with the separator word matched in the spelling "Or" only
parseMatchStringOrAsSpelled(str) ==
    IF trim(str) = ""
    THEN WithKeys(NoModifiers, <<"">>)
    ELSE LET processedString ==
                 replaceAll(replaceAll(str, "cmdorctrl", "__CMDCTRL__", TRUE),
                            "commandorcontrol", "__COMMANDCONTROL__", TRUE)
             keyAlternatives == split(processedString, "Or", FALSE)
             restoredAlternatives ==
                 [i \in 1..Len(keyAlternatives) |->
                     replaceAll(replaceAll(keyAlternatives[i], "__CMDCTRL__", "cmdorctrl", FALSE),
                                "__COMMANDCONTROL__", "commandorcontrol", FALSE)]
         IN  IF Len(restoredAlternatives) = 1
             THEN parseSingleKeyMatch(restoredAlternatives[1])
             ELSE parseMultipleKeyMatch(restoredAlternatives)

parseMatchString(str) ==
    IF trim(str) = ""
    THEN WithKeys(NoModifiers, <<"">>)
    ELSE LET processedString ==
                 replaceAll(replaceAll(str, "cmdorctrl", "__CMDCTRL__", TRUE),
                            "commandorcontrol", "__COMMANDCONTROL__", TRUE)
             keyAlternatives == split(processedString, "or", TRUE)
             restoredAlternatives ==
                 [i \in 1..Len(keyAlternatives) |->
                     replaceAll(replaceAll(keyAlternatives[i], "__CMDCTRL__", "cmdorctrl", FALSE),
                                "__COMMANDCONTROL__", "commandorcontrol", FALSE)]
         IN  IF Len(restoredAlternatives) = 1
             THEN parseSingleKeyMatch(restoredAlternatives[1])
             ELSE parseMultipleKeyMatch(restoredAlternatives)

-----------------------------------------------------------------------------
(* normalizeKey, keyMatch                                                  *)

\* keyMap[normalized]: keyMap is an object literal, so besides its five own
\* entries the lookup finds what it inherits from Object.prototype.  Of the
\* inherited names only "constructor" and "__proto__" are in lower case; their
\* values are a function and an object, written here as the strings JavaScript
\* prints for them (no lowercased pattern key equals either, as === requires).
\* <<>> is undefined.
keyMap(normalized) ==
    CASE normalized = " " -> <<"space">>
      [] normalized = "arrowup" -> <<"up">>
      [] normalized = "arrowdown" -> <<"down">>
      [] normalized = "arrowleft" -> <<"left">>
      [] normalized = "arrowright" -> <<"right">>
      [] normalized = "constructor" -> <<"[Function: Object]">>
      [] normalized = "__proto__" -> <<"[Object: null prototype] {}">>
      [] OTHER -> <<>>

normalizeKey(key) ==
    LET normalized == toLowerCase(key)
    IN  IF keyMap(normalized) # <<>> THEN keyMap(normalized)[1] ELSE normalized

\* matches with the required modifiers tested for presence only
matchesRequiredModifiers(ev, p) ==
    /\ \E i \in 1..Len(p.keys) : normalizeKey(ev.key) = p.keys[i]
    /\ p.ctrl => ev.ctrlKey
    /\ p.alt => ev.altKey
    /\ p.shift => ev.shiftKey
    /\ p.meta => ev.metaKey

\* the boolean keyMatch returns once the pattern has parsed to p
matches(ev, p) ==
    /\ \E i \in 1..Len(p.keys) : normalizeKey(ev.key) = p.keys[i]
    /\ ev.ctrlKey = p.ctrl
    /\ ev.altKey = p.alt
    /\ ev.shiftKey = p.shift
    /\ ev.metaKey = p.meta

\* keyMatch's completion, given what parseMatchString completed with
completion(ev, p) ==
    IF p.threw # NoThrow
    THEN [kind |-> "throw", threw |-> p.threw, message |-> p.message, value |-> FALSE]
    ELSE [kind |-> "return", threw |-> NoThrow, message |-> "", value |-> matches(ev, p)]

keyMatch(ev, str) == completion(ev, parseMatchString(str))

-----------------------------------------------------------------------------
(* The inputs: hosts, events and patterns                                  *)

Navigator(exists, hasUserAgentData, userAgentData, platform) ==
    [exists |-> exists, hasUserAgentData |-> hasUserAgentData,
     userAgentData |-> userAgentData, platform |-> platform]

NoNavigator == Navigator(FALSE, FALSE, <<>>, <<>>)          \* typeof navigator === 'undefined'
Win32 == Navigator(TRUE, FALSE, <<>>, <<"Win32">>)          \* { platform: 'Win32' }
MacIntel == Navigator(TRUE, FALSE, <<>>, <<"MacIntel">>)    \* { platform: 'MacIntel' }
ChromeMac ==                                                \* userAgentData first
    Navigator(TRUE, TRUE, <<[platform |-> <<"macOS">>]>>, <<"Win32">>)
BareNavigator == Navigator(TRUE, FALSE, <<>>, <<>>)         \* a navigator, no platform at all

Navigators == {NoNavigator, Win32, MacIntel, ChromeMac, BareNavigator}

KeyboardEvent(key, ctrlKey, altKey, shiftKey, metaKey) ==
    [key |-> key, ctrlKey |-> ctrlKey, altKey |-> altKey,
     shiftKey |-> shiftKey, metaKey |-> metaKey]

KeyboardEvents(keys) ==
    [key : keys, ctrlKey : BOOLEAN, altKey : BOOLEAN, shiftKey : BOOLEAN, metaKey : BOOLEAN]

\* A pattern as its author composes it: alternatives joined by a spelling of
\* the separator word, each alternative its modifier tokens and its terminal
\* key joined by "+"
Alternative(mods, key) == [mods |-> mods, key |-> key]
Pattern(alts, or) == [alts |-> alts, or |-> or]
Single(mods, key) == Pattern(<<Alternative(mods, key)>>, "Or")

RECURSIVE join(_, _)
join(pieces, sep) ==
    IF pieces = <<>> THEN ""
    ELSE IF Len(pieces) = 1 THEN pieces[1]
    ELSE pieces[1] \o sep \o join(Tail(pieces), sep)

RenderAlternative(a) == join(Append(a.mods, a.key), "+")
Render(g) == join([i \in 1..Len(g.alts) |-> RenderAlternative(g.alts[i])], g.or)

-----------------------------------------------------------------------------
(* The state machine: one call of keyMatch on inputs drawn by Init         *)

NotParsed == Thrown(NoThrow, "")
Pending == [kind |-> "pending", threw |-> NoThrow, message |-> "", value |-> FALSE]

\* no component uses useKeyMatch
NoHook ==
    /\ passesEvent = TRUE
    /\ mounted = FALSE
    /\ callbacks = <<>>
    /\ registration = 0
    /\ listeners = <<>>
    /\ invoked = <<>>
    /\ handled = <<>>

InitWith(navigators, events, patterns) ==
    /\ given \in patterns
    /\ matchString = Render(given)
    /\ navigator \in navigators
    /\ event \in events
    /\ parsed = NotParsed
    /\ result = Pending
    /\ pc = "call"
    /\ NoHook

KeyMatch ==
    /\ pc = "call"
    /\ parsed' = parseMatchString(matchString)
    /\ result' = completion(event, parsed')
    /\ pc' = "done"
    /\ UNCHANGED <<navigator, event, given, matchString>>
    /\ UNCHANGED hookVars

Next == KeyMatch

-----------------------------------------------------------------------------
(* Spec: keyMatch on the patterns of the tests, the README and the         *)
(* specification, on every host, against events of every modifier state    *)

MaxBlank == 2

\* the strings of at most n white space characters
RECURSIVE Blanks(_)
Blanks(n) ==
    IF n = 0 THEN {""}
    ELSE {""} \cup {c \o b : c \in WhiteSpace, b \in Blanks(n - 1)}

BlankPatterns == {Single(<<>>, b) : b \in Blanks(MaxBlank)}

EventKeys ==
    {"", " ", "Z", "n", "f", "c", "Escape", "Enter", "ArrowUp", "BrowserForward",
     "constructor"}

CtrlZ == Single(<<"ctrl">>, "z")
OptionF == Single(<<"option">>, "f")
EscapeOrCtrlC ==
    Pattern(<<Alternative(<<>>, "Escape"), Alternative(<<"Ctrl">>, "C")>>, "Or")

CompoundTokens == {"CmdOrCtrl", "CommandOrControl", "cmdorctrl", "COMMANDORCONTROL"}
CompoundKeys == {"n", "ArrowUp", "BrowserForward"}
CompoundPatterns == {Single(<<t>>, k) : t \in CompoundTokens, k \in CompoundKeys}

NotablePatterns ==
    {CtrlZ, OptionF, EscapeOrCtrlC,
     Single(<<>>, "z"), Single(<<"shift", "ctrl">>, "z"),
     Single(<<"alt">>, "f"), Single(<<>>, "f"), Single(<<"hyper">>, "f"),
     Single(<<>>, "space"), Single(<<>>, "up"), Single(<<>>, "ArrowUp"),
     Single(<<>>, "BrowserForward"), Single(<<>>, "F13"),
     Single(<<"ctrl">>, ""), Single(<<"">>, ""), Single(<<"ctrl">>, " "),
     Pattern(<<Alternative(<<>>, "Enter"), Alternative(<<>>, "")>>, "Or"),
     Pattern(<<Alternative(<<>>, "Enter"), Alternative(<<>>, "Space")>>, "Or"),
     Pattern(<<Alternative(<<>>, "Enter"), Alternative(<<>>, "Space")>>, " or "),
     Pattern(<<Alternative(<<"ctrl">>, " "), Alternative(<<>>, "f")>>, "or"),
     Pattern(<<Alternative(<<"option">>, "f"), Alternative(<<>>, "")>>, "Or"),
     Pattern(<<Alternative(<<"CmdOrCtrl">>, "Enter"), Alternative(<<>>, "Space")>>, "Or")}

Init == InitWith(Navigators, KeyboardEvents(EventKeys),
                 NotablePatterns \cup CompoundPatterns \cup BlankPatterns)

Spec == Init /\ [][Next]_vars

Done == pc = "done"
Returned == Done /\ result.kind = "return"
NoModifierHeld(ev) == ~ev.ctrlKey /\ ~ev.altKey /\ ~ev.shiftKey /\ ~ev.metaKey
OnlyCtrlHeld(ev) == ev.ctrlKey /\ ~ev.altKey /\ ~ev.shiftKey /\ ~ev.metaKey
OnlyAltHeld(ev) == ~ev.ctrlKey /\ ev.altKey /\ ~ev.shiftKey /\ ~ev.metaKey
OnlyMetaHeld(ev) == ~ev.ctrlKey /\ ~ev.altKey /\ ~ev.shiftKey /\ ev.metaKey

\* the host's platform as detection reports it
ApplePlatform == getIsMacOS.threw = NoThrow /\ getIsMacOS.value
NonApplePlatform == getIsMacOS.threw = NoThrow /\ ~getIsMacOS.value

-----------------------------------------------------------------------------
\* C1: for a pattern that parses, keyMatch returns true iff the normalized
\* event key is an entry of the parsed keys list and each of the event's four
\* modifier states equals the parsed flag; a modifier held that the pattern
\* does not require (Ctrl+Shift+Z against 'ctrl+z') prevents the match.
C1_MatchIffKeyListedAndModifiersEqual ==
    Returned =>
        /\ result.value =
              (/\ normalizeKey(event.key) \in {parsed.keys[i] : i \in 1..Len(parsed.keys)}
               /\ <<event.ctrlKey, event.altKey, event.shiftKey, event.metaKey>>
                    = <<parsed.ctrl, parsed.alt, parsed.shift, parsed.meta>>)
        /\ (given = CtrlZ /\ (event.altKey \/ event.shiftKey \/ event.metaKey))
              => ~result.value
        /\ (given = CtrlZ /\ event.key = "Z" /\ OnlyCtrlHeld(event)) => result.value

C1_Witness ==
    /\ Returned
    /\ given = CtrlZ
    /\ event = KeyboardEvent("Z", TRUE, FALSE, TRUE, FALSE)
    /\ ~result.value

-----------------------------------------------------------------------------
IsBlank(s) == \A i \in 1..Len(s) : charAt(s, i) \in WhiteSpace

\* C2: for the empty pattern and every white-space-only pattern keyMatch
\* returns false for every event, an empty key label included, and never raises.
C2_BlankPatternNeverMatches ==
    (Done /\ IsBlank(matchString)) => (result.kind = "return" /\ ~result.value)

-----------------------------------------------------------------------------
\* The alternative fragments of a pattern: the pieces between the separator
\* word, the two compound tokens kept whole; trimmed when there are several.
Fragments(str) ==
    LET whole ==
            split(replaceAll(replaceAll(str, "cmdorctrl", "##", TRUE),
                             "commandorcontrol", "###", TRUE), "or", TRUE)
    IN  [i \in 1..Len(whole) |-> IF Len(whole) = 1 THEN whole[i] ELSE trim(whole[i])]

\* a fragment with an empty terminal-key segment: empty, or ending in "+"
LacksKey(fragment) == fragment = "" \/ charAt(fragment, Len(fragment)) = "+"

SomeFragmentLacksKey(str) ==
    \E i \in 1..Len(Fragments(str)) : LacksKey(Fragments(str)[i])

RaisedInvalidAccelerator ==
    /\ result.kind = "throw"
    /\ result.threw = Error
    /\ hasAt(result.message, 1, "Invalid accelerator: ")

\* C3: for a non-blank pattern keyMatch raises the invalid-accelerator error
\* exactly when some alternative fragment has an empty terminal-key segment,
\* whatever the event; for every other pattern it returns a boolean.
C3_RaisesExactlyOnEmptyTerminalKey ==
    (Done /\ ~IsBlank(matchString)) =>
        IF SomeFragmentLacksKey(matchString)
        THEN RaisedInvalidAccelerator
        ELSE result.kind = "return"

-----------------------------------------------------------------------------
\* C4: for any key K, '<compound token>+K' matches an event with key K iff
\* exactly ctrl is held on a non-Apple platform and iff exactly meta is held
\* on an Apple platform.
C4_CompoundTokenIsOneFlag ==
    \A t \in CompoundTokens, k \in CompoundKeys :
        (Done /\ given = Single(<<t>>, k) /\ event.key = k) =>
            /\ NonApplePlatform => (Returned /\ result.value = OnlyCtrlHeld(event))
            /\ ApplePlatform => (Returned /\ result.value = OnlyMetaHeld(event))

\* what does hold of the compound tokens, on the key the other rules leave
\* alone: one flag, by platform, and no split inside the token
CompoundTokenOnPlainKey ==
    \A t \in CompoundTokens :
        (Done /\ given = Single(<<t>>, "n")) =>
            /\ NonApplePlatform =>
                  (Returned /\ result.value = (event.key = "n" /\ OnlyCtrlHeld(event)))
            /\ ApplePlatform =>
                  (Returned /\ result.value = (event.key = "n" /\ OnlyMetaHeld(event)))

-----------------------------------------------------------------------------
\* C5 as stated: 'option+f' matches only with alt held and only on an Apple
\* platform; on a non-Apple platform it matches no event at all.
C5_OptionNeverMatchesOffApple ==
    (Done /\ given = OptionF) =>
        /\ (Returned /\ result.value) => (ApplePlatform /\ event.altKey)
        /\ NonApplePlatform => (Returned /\ ~result.value)

\* C5 (amended): on an Apple platform 'option+f' matches exactly the events
\* with key 'f' and alt alone held; on a non-Apple platform the option token
\* has no effect, so 'option+f' matches exactly the events with key 'f' and no
\* modifier held, and none with alt held.
C5_OptionIsAltOnAppleElseIgnored ==
    (Done /\ given = OptionF) =>
        /\ ApplePlatform =>
              (Returned /\ result.value = (toLowerCase(event.key) = "f" /\ OnlyAltHeld(event)))
        /\ NonApplePlatform =>
              (Returned /\ result.value = (toLowerCase(event.key) = "f" /\ NoModifierHeld(event)))

C5_Witness ==
    /\ Returned
    /\ given = OptionF
    /\ navigator = Win32
    /\ event = KeyboardEvent("f", FALSE, FALSE, FALSE, FALSE)
    /\ result.value

-----------------------------------------------------------------------------
\* C7: 'EscapeOrCtrl+C' matches Escape with no modifier held, and matches
\* 'c' with exactly ctrl held.
C7_EscapeOrCtrlC ==
    (Done /\ given = EscapeOrCtrlC) =>
        /\ (event.key = "Escape" /\ NoModifierHeld(event)) => (Returned /\ result.value)
        /\ (event.key = "c" /\ OnlyCtrlHeld(event)) => (Returned /\ result.value)

-----------------------------------------------------------------------------
\* the normalization the claim describes: lower case, then five rewrites
ClaimedNormalizeKey(key) ==
    LET lower == toLowerCase(key)
    IN  CASE lower = " " -> "space"
          [] lower = "arrowup" -> "up"
          [] lower = "arrowdown" -> "down"
          [] lower = "arrowleft" -> "left"
          [] lower = "arrowright" -> "right"
          [] OTHER -> lower

\* C10: normalization lowercases the key label and rewrites exactly five
\* labels; every other label passes through lowercased; hence a modifier-free
\* ' ' matches 'space' and a modifier-free 'ArrowUp' matches 'up'.
C10_NormalizeKeyRewritesFiveLabels ==
    Done =>
        /\ normalizeKey(event.key) = ClaimedNormalizeKey(event.key)
        /\ (given = Single(<<>>, "space") /\ event.key = " " /\ NoModifierHeld(event))
              => (Returned /\ result.value)
        /\ (given = Single(<<>>, "up") /\ event.key = "ArrowUp" /\ NoModifierHeld(event))
              => (Returned /\ result.value)

-----------------------------------------------------------------------------
(* The modifier table of the pattern grammar, as a set of tokens resolves:  *)
(* what a list of tokens asks for, whatever their order or number          *)

Asks(tokens, names) == \E i \in 1..Len(tokens) : toLowerCase(tokens[i]) \in names

TableFlags(tokens) ==
    <<Asks(tokens, {"ctrl", "control"})
        \/ (Asks(tokens, {"cmdorctrl", "commandorcontrol"}) /\ NonApplePlatform),
      Asks(tokens, {"alt"}) \/ (Asks(tokens, {"option"}) /\ ApplePlatform),
      Asks(tokens, {"shift"}),
      Asks(tokens, {"meta", "super", "cmd", "command"})
        \/ (Asks(tokens, {"cmdorctrl", "commandorcontrol"}) /\ ApplePlatform)>>

HeldModifiers(ev) == <<ev.ctrlKey, ev.altKey, ev.shiftKey, ev.metaKey>>

-----------------------------------------------------------------------------
(* SpecAlternatives: keyMatch on multi-key patterns M+K1 Or X+K2 Or ...    *)

MaxAlternatives == 2

LeadingModifiers ==
    {<<>>, <<"Ctrl">>, <<"CmdOrCtrl">>, <<"Option">>, <<"Shift", "Alt">>}
TrailingModifiers == {<<>>, <<"Shift">>, <<"Ctrl", "Alt">>}
AlternativeKeys == {"Enter", "Space"}

LeadingAlternatives ==
    {Alternative(m, k) : m \in LeadingModifiers, k \in AlternativeKeys}
TrailingAlternatives ==
    {Alternative(m, "Space") : m \in TrailingModifiers}

MultiKeyPatterns ==
    UNION {{Pattern(<<lead>> \o rest, "Or") :
                lead \in LeadingAlternatives,
                rest \in [1..(n - 1) -> TrailingAlternatives]} :
           n \in 2..MaxAlternatives}

EnterOrSpaceOrTab ==
    Pattern(<<Alternative(<<>>, "Enter"), Alternative(<<>>, "Space"),
              Alternative(<<>>, "Tab")>>, "Or")

InitAlternatives ==
    InitWith({Win32, MacIntel, BareNavigator},
             KeyboardEvents({"Enter", " ", "Tab"}),
             MultiKeyPatterns \cup {EnterOrSpaceOrTab})

SpecAlternatives == InitAlternatives /\ [][Next]_vars

\* g with the modifier segments of its j-th alternative left out
WithoutModifiers(g, j) ==
    [g EXCEPT !.alts[j] = Alternative(<<>>, g.alts[j].key)]

-----------------------------------------------------------------------------
(* SpecModifiers: keyMatch on '<modifier tokens>+z', every list of tokens  *)

MaxModifiers == 2

ListTokens == {"Ctrl", "CmdOrCtrl", "Option", "Shift", "Meta"}
AliasTokens ==
    {"Control", "Cmd", "Command", "CommandOrControl", "Alt", "Super", "Hyper"}

TokenLists ==
    UNION {[1..n -> ListTokens] : n \in 0..MaxModifiers}
        \cup {<<a, "Shift">> : a \in AliasTokens}

InitModifiers ==
    InitWith({Win32, MacIntel, BareNavigator},
             KeyboardEvents({"Z"}),
             {Single(m, "z") : m \in TokenLists})

SpecModifiers == InitModifiers /\ [][Next]_vars

\* the tokens in the order perm gives
Permuted(tokens, perm) == [i \in 1..Len(tokens) |-> tokens[perm[i]]]

\* C9: modifier resolution is order-independent and idempotent: on every
\* platform any permutation of a pattern's modifier tokens and any repetition
\* of one of them gives the same four flags (those the table gives the set of
\* tokens), hence the same keyMatch result for every event.
C9_ModifierOrderAndRepetition ==
    (Done /\ Len(given.alts) = 1) =>
        LET tokens == given.alts[1].mods
            key == given.alts[1].key
        IN  /\ \A perm \in Permutations(1..Len(tokens)) :
                  /\ parseModifiers(lowerModifierParts(Append(Permuted(tokens, perm), key)))
                        = parseModifiers(lowerModifierParts(Append(tokens, key)))
                  /\ keyMatch(event, Render(Single(Permuted(tokens, perm), key))) = result
            /\ \A i \in 1..Len(tokens) :
                  /\ parseModifiers(lowerModifierParts(Append(Append(tokens, tokens[i]), key)))
                        = parseModifiers(lowerModifierParts(Append(tokens, key)))
                  /\ keyMatch(event, Render(Single(Append(tokens, tokens[i]), key))) = result
            /\ Returned =>
                  <<parsed.ctrl, parsed.alt, parsed.shift, parsed.meta>> = TableFlags(tokens)

C9_Witness ==
    /\ Returned
    /\ given = Single(<<"Shift", "Ctrl">>, "z")
    /\ event = KeyboardEvent("Z", TRUE, FALSE, TRUE, FALSE)
    /\ result.value

-----------------------------------------------------------------------------
(* SpecCase: keyMatch on well-formed patterns, in every spelling of case   *)

CmdOrCtrlEnterOrSpace ==
    Pattern(<<Alternative(<<"CmdOrCtrl">>, "Enter"), Alternative(<<>>, "Space")>>, "Or")

CasePatterns ==
    {CmdOrCtrlEnterOrSpace, EscapeOrCtrlC, EnterOrSpaceOrTab,
     Single(<<"Ctrl", "Shift">>, "Z"), Single(<<"CommandOrControl">>, "n"),
     Single(<<"Option">>, "F"), Single(<<"Super">>, "Tab"),
     Single(<<>>, "ArrowUp"), Single(<<>>, "Up"), Single(<<>>, "Space")}

InitCase ==
    InitWith({Win32, MacIntel},
             KeyboardEvents({"Enter", " ", "Z", "n", "f", "ArrowUp"}),
             CasePatterns)

SpecCase == InitCase /\ [][Next]_vars

\* s with the letter at position i in the other case
flipCase(s, i) ==
    LET c == charAt(s, i)
    IN  SubSeq(s, 1, i - 1)
            \o (IF toLowerChar(c) = c THEN toUpperChar(c) ELSE toLowerChar(c))
            \o SubSeq(s, i + 1, Len(s))

\* s in lower case, in upper case, and each of them with one letter flipped
CaseVariants(s) ==
    {toLowerCase(s), toUpperCase(s)}
        \cup {flipCase(toLowerCase(s), i) : i \in 1..Len(s)}
        \cup {flipCase(toUpperCase(s), i) : i \in 1..Len(s)}

\* C8: keyMatch is case-insensitive in both arguments: respelling the case of
\* the letters of a well-formed pattern (modifier tokens, the separator word,
\* the compound tokens, the terminal keys) or of the event's key label leaves
\* the result unchanged.
C8_CaseInsensitive ==
    Done =>
        /\ \A v \in CaseVariants(matchString) : keyMatch(event, v) = result
        /\ \A k \in CaseVariants(event.key) :
              keyMatch([event EXCEPT !.key = k], matchString) = result

C8_Witness ==
    /\ Returned
    /\ navigator = Win32
    /\ given = CmdOrCtrlEnterOrSpace
    /\ event = KeyboardEvent("Enter", TRUE, FALSE, FALSE, FALSE)
    /\ result.value

-----------------------------------------------------------------------------
\* C11: the pattern 'ArrowUp' is triggered by the arrow key: keyMatch returns
\* true for a modifier-free event whose key label is 'ArrowUp'.
C11_ArrowUpPatternMatchesArrowUp ==
    (Done /\ given = Single(<<>>, "ArrowUp")
          /\ event.key = "ArrowUp" /\ NoModifierHeld(event))
        => (Returned /\ result.value)

-----------------------------------------------------------------------------
\* C12: a terminal key whose name contains the letters 'or' stays one key:
\* 'BrowserForward' parses to the single key 'browserforward' with no flags
\* and matches a modifier-free event carrying that key label.
C12_KeyContainingOrStaysOneKey ==
    (Done /\ given = Single(<<>>, "BrowserForward")) =>
        /\ parsed = WithKeys(NoModifiers, <<"browserforward">>)
        /\ (event.key = "BrowserForward" /\ NoModifierHeld(event))
              => (Returned /\ result.value)

-----------------------------------------------------------------------------
\* the string detection is claimed to look at: the structured descriptor's
\* platform (empty if missing) when there is one, else the legacy string
ClaimedPlatform ==
    IF navigator.hasUserAgentData
    THEN IF navigator.userAgentData # <<>> /\ navigator.userAgentData[1].platform # <<>>
         THEN navigator.userAgentData[1].platform[1]
         ELSE ""
    ELSE IF navigator.platform # <<>> THEN navigator.platform[1] ELSE ""

\* C13: platform detection never throws, on any host; it returns false
\* without a navigator and with a navigator that has no platform at all, and
\* otherwise true iff the chosen string contains 'mac' in any case. Hence
\* 'cmdorctrl+n' on a host without platform capability behaves as on a
\* non-Apple platform: it matches 'n' with exactly ctrl held.
C13_PlatformDetectionNeverThrows ==
    Done =>
        /\ getIsMacOS.threw = NoThrow
        /\ getIsMacOS.value =
              (navigator.exists /\ includes(toLowerCase(ClaimedPlatform), "mac"))
        /\ (given = Single(<<"cmdorctrl">>, "n") /\ ~ApplePlatform) =>
              (Returned /\ result.value = (event.key = "n" /\ OnlyCtrlHeld(event)))

-----------------------------------------------------------------------------
(* useKeyMatch: the hook.  React runs the effect after the commit of a     *)
(* render whose callbacks object is not the one of the previous render,    *)
(* the previous effect's cleanup first, and runs the cleanup on unmount.   *)

MaxRegistrations == 3

\* a callbacks object: its identity and its own properties in key order
CallbacksObject(id, entries) == [id |-> id, entries |-> entries]
Entry(key, callback) == [key |-> key, callback |-> callback]

\* Object.keys(callbacks)
ObjectKeys(cbs) == [i \in 1..Len(cbs.entries) |-> cbs.entries[i].key]

\* callbacks[matchString]: <<>> when the property holds undefined
property(cbs, key) ==
    LET i == CHOOSE j \in 1..Len(cbs.entries) : cbs.entries[j].key = key
    IN  cbs.entries[i].callback

\* one call of a callback: by which registration's listener, under which
\* key, which function, with which arguments
Invocation(reg, key, callback, arguments) ==
    [registration |-> reg, matchString |-> key,
     callback |-> callback, arguments |-> arguments]

\* the arguments the handler calls a callback with
callArguments(ev) == IF passesEvent THEN <<ev>> ELSE <<>>

\* Object.keys(callbacks).filter(key => keyMatch(event, key))
RECURSIVE filterKeys(_, _, _, _)
filterKeys(keys, ev, i, acc) ==
    IF i > Len(keys)
    THEN [threw |-> NoThrow, message |-> "", matchStrings |-> acc]
    ELSE LET r == keyMatch(ev, keys[i])
         IN  IF r.kind = "throw"
             THEN [threw |-> r.threw, message |-> r.message, matchStrings |-> <<>>]
             ELSE filterKeys(keys, ev, i + 1,
                             IF r.value THEN Append(acc, keys[i]) ELSE acc)

\* matchStrings.forEach(matchString => callbacks[matchString]?.(event))
RECURSIVE forEachCall(_, _, _, _, _)
forEachCall(matchStrings, ev, reg, cbs, i) ==
    IF i > Len(matchStrings) THEN <<>>
    ELSE LET callback == property(cbs, matchStrings[i])
         IN  (IF callback = <<>> THEN <<>>
              ELSE <<Invocation(reg, matchStrings[i], callback[1], callArguments(ev))>>)
                 \o forEachCall(matchStrings, ev, reg, cbs, i + 1)

\* handleKeyDown, its first statement: the keys of callbacks that match
filterMatching(ev, cbs) == filterKeys(ObjectKeys(cbs), ev, 1, <<>>)

\* the keys that match, up to the first key keyMatch raises for
RECURSIVE matchingUntilThrow(_, _, _)
matchingUntilThrow(keys, ev, i) ==
    IF i > Len(keys) THEN <<>>
    ELSE LET r == keyMatch(ev, keys[i])
         IN  IF r.kind = "throw" THEN <<>>
             ELSE (IF r.value THEN <<keys[i]>> ELSE <<>>)
                     \o matchingUntilThrow(keys, ev, i + 1)

\* a handler that has called each callback as soon as its key matched
forEachMatchEager(filtered, ev, reg, cbs) ==
    forEachCall(matchingUntilThrow(ObjectKeys(cbs), ev, 1), ev, reg, cbs, 1)

\* handleKeyDown, its second statement, reached when the filter returned
forEachMatch(filtered, ev, reg, cbs) ==
    IF filtered.threw # NoThrow
    THEN <<>>
    ELSE forEachCall(filtered.matchStrings, ev, reg, cbs, 1)

\* a listener of window: the closure over callbacks, and the registration
\* whose abort signal it was added with
Listener(reg, cbs) == [registration |-> reg, callbacks |-> cbs]

\* the effect: window.addEventListener('keydown', handleKeyDown, {signal})
addEventListener(ls, reg, cbs) == Append(ls, Listener(reg, cbs))

\* a cleanup that leaves the listener in place
cleanupWithoutAbort(ls, reg) == ls

\* the cleanup: abortController.abort() removes the listeners of its signal
cleanup(ls, reg) ==
    LET OfOtherSignal(l) == l.registration # reg
    IN  SelectSeq(ls, OfOtherSignal)

\* window dispatches a keydown event: every listener runs, in order; an
\* exception leaving one is reported and does not stop the others
RECURSIVE dispatchEvent(_, _, _, _)
dispatchEvent(ls, filtered, ev, i) ==
    IF i > Len(ls) THEN <<>>
    ELSE forEachMatch(filtered[i], ev, ls[i].registration, ls[i].callbacks)
            \o dispatchEvent(ls, filtered, ev, i + 1)

-----------------------------------------------------------------------------
(* SpecHook: one component using useKeyMatch, mounted, re-rendered with    *)
(* callbacks objects, unmounted, while keydown events arrive               *)

OnKeys ==
    <<Entry("a", <<"onA">>), Entry("Ctrl+a", <<"onCtrlA">>), Entry("A", <<"onUpperA">>)>>

\* two objects with the same properties: an object literal evaluated twice
Shortcuts == CallbacksObject(1, OnKeys)
ShortcutsAgain == CallbacksObject(2, OnKeys)
\* an invalid pattern between two that match the same event
WithInvalid ==
    CallbacksObject(3, <<Entry("a", <<"onA">>), Entry("ctrl+", <<"onBad">>),
                         Entry("A", <<"onUpperA">>)>>)
\* a pattern that asks for the platform
WithCmdOrCtrl ==
    CallbacksObject(4, <<Entry("a", <<"onA">>), Entry("CmdOrCtrl+a", <<"onSelectAll">>)>>)
\* a property that holds no function
WithUndefined ==
    CallbacksObject(5, <<Entry("Enter", <<>>), Entry("EnterOrSpace", <<"onSubmit">>)>>)

CallbacksObjects == {Shortcuts, ShortcutsAgain, WithInvalid, WithCmdOrCtrl, WithUndefined}

HookEvents ==
    {KeyboardEvent(k, c, FALSE, FALSE, FALSE) : k \in {"a", "Enter"}, c \in BOOLEAN}

InitHook ==
    /\ navigator \in {Win32, BareNavigator}
    /\ event = KeyboardEvent("", FALSE, FALSE, FALSE, FALSE)
    /\ given = Single(<<>>, "")
    /\ matchString = ""
    /\ parsed = NotParsed
    /\ result = Pending
    /\ pc = "hook"
    /\ passesEvent \in BOOLEAN
    /\ mounted = FALSE
    /\ callbacks = <<>>
    /\ registration = 0
    /\ listeners = <<>>
    /\ invoked = <<>>
    /\ handled = <<>>

\* the component mounts: first render with cbs, then its effect
Mount(cbs) ==
    /\ pc = "hook"
    /\ ~mounted
    /\ registration < MaxRegistrations
    /\ mounted' = TRUE
    /\ callbacks' = <<cbs>>
    /\ registration' = registration + 1
    /\ listeners' = addEventListener(listeners, registration', cbs)
    /\ invoked' = <<>>
    /\ handled' = <<>>
    /\ UNCHANGED <<navigator, event, given, matchString, parsed, result, pc, passesEvent>>

\* the component renders again with cbs: when cbs is another object than the
\* last render's, the cleanup of the last effect and then the effect
Rerender(cbs) ==
    /\ pc = "hook"
    /\ mounted
    /\ callbacks' = <<cbs>>
    /\ IF cbs.id = callbacks[1].id
       THEN UNCHANGED <<registration, listeners>>
       ELSE /\ registration < MaxRegistrations
            /\ registration' = registration + 1
            /\ listeners' =
                  addEventListener(cleanup(listeners, registration), registration', cbs)
    /\ invoked' = <<>>
    /\ handled' = <<>>
    /\ UNCHANGED <<navigator, event, given, matchString, parsed, result, pc,
                   passesEvent, mounted>>

\* the component unmounts: the cleanup of the last effect
Unmount ==
    /\ pc = "hook"
    /\ mounted
    /\ mounted' = FALSE
    /\ callbacks' = <<>>
    /\ listeners' = cleanup(listeners, registration)
    /\ invoked' = <<>>
    /\ handled' = <<>>
    /\ UNCHANGED <<navigator, event, given, matchString, parsed, result, pc,
                   passesEvent, registration>>

\* the user presses a key: window dispatches keydown to its listeners
KeyDown(ev) ==
    /\ pc = "hook"
    /\ event' = ev
    /\ handled' = [i \in 1..Len(listeners) |-> filterMatching(ev, listeners[i].callbacks)]
    /\ invoked' = dispatchEvent(listeners, handled', ev, 1)
    /\ UNCHANGED <<navigator, given, matchString, parsed, result, pc,
                   passesEvent, mounted, callbacks, registration, listeners>>

NextHook ==
    \/ \E cbs \in CallbacksObjects : Mount(cbs)
    \/ \E cbs \in CallbacksObjects : Rerender(cbs)
    \/ Unmount
    \/ \E ev \in HookEvents : KeyDown(ev)

SpecHook == InitHook /\ [][NextHook]_vars

\* the last step was a keydown event that the mounted component's listener handled
KeyDownHandled == mounted /\ handled # <<>>

\* keyMatch(ev, key) returns true
Matches(ev, key) == keyMatch(ev, key).kind = "return" /\ keyMatch(ev, key).value

\* keyMatch raises for key, whatever the event
Raises(key) == parseMatchString(key).threw # NoThrow

\* one call, with the given arguments, of each function registered under a
\* key that matches ev, in the order of the keys
RECURSIVE CallsOfMatching(_, _, _, _, _)
CallsOfMatching(ev, reg, cbs, arguments, i) ==
    IF i > Len(cbs.entries) THEN <<>>
    ELSE LET entry == cbs.entries[i]
         IN  (IF Matches(ev, entry.key) /\ entry.callback # <<>>
              THEN <<Invocation(reg, entry.key, entry.callback[1], arguments)>>
              ELSE <<>>)
                 \o CallsOfMatching(ev, reg, cbs, arguments, i + 1)

-----------------------------------------------------------------------------
\* C14: while the component is mounted, a keydown event invokes exactly the
\* callbacks whose keys match the event, each once, with the event as
\* argument, in the order of the keys, and no other callback.
C14_MatchingCallbacksInvokedOnce ==
    KeyDownHandled =>
        invoked = CallsOfMatching(event, registration, callbacks[1], <<event>>, 1)

\* what does hold of the handler: when keyMatch raises for a registered key
\* nothing is invoked, and otherwise exactly the callbacks of the matching
\* keys are, once each and in key order, with the arguments the hook passes
HandlerCallsMatchingOrNothing ==
    KeyDownHandled =>
        invoked =
            IF \E i \in 1..Len(callbacks[1].entries) : Raises(callbacks[1].entries[i].key)
            THEN <<>>
            ELSE CallsOfMatching(event, registration, callbacks[1], callArguments(event), 1)

-----------------------------------------------------------------------------
\* C15: across mounts, re-registrations and unmounts the component has at
\* most one keydown listener attached, the one of its current registration,
\* and none once unmounted; a keydown event invokes callbacks of the current
\* registration only, never of a superseded or disposed one.
C15_AtMostOneListener ==
    /\ Len(listeners) <= 1
    /\ mounted = (Len(listeners) = 1)
    /\ \A i \in 1..Len(listeners) :
          /\ listeners[i].registration = registration
          /\ listeners[i].callbacks = callbacks[1]
    /\ \A i \in 1..Len(invoked) :
          mounted /\ invoked[i].registration = registration

C15_Witness ==
    /\ mounted
    /\ registration >= 2
    /\ callbacks = <<ShortcutsAgain>>
    /\ Len(invoked) = 2

-----------------------------------------------------------------------------
\* C16: when keyMatch raises for one registered key, the error leaves the
\* handler before any callback is invoked: for every event no callback runs,
\* not even those of matching keys that precede the invalid one.
C16_InvalidPatternSilencesAll ==
    (KeyDownHandled
        /\ \E i \in 1..Len(callbacks[1].entries) : Raises(callbacks[1].entries[i].key))
      => /\ invoked = <<>>
         /\ \A i \in 1..Len(handled) : handled[i].threw # NoThrow

C16_Witness ==
    /\ KeyDownHandled
    /\ callbacks = <<WithInvalid>>
    /\ event = KeyboardEvent("a", FALSE, FALSE, FALSE, FALSE)
    /\ handled[1].threw = Error
    /\ invoked = <<>>

====
